---------------------------- MODULE Spec2Model ----------------------------
(***************************************************************************)
(* A model of the bag-of-cells codec of mr-tron/tongo (package boc):       *)
(* cells and their references (cell.go), the content hash, the             *)
(* topological linearizer, SerializeBoc, parseBocHeader and DeserializeBoc *)
(* (boc/boc.go).                                                           *)
(*                                                                         *)
(* Conventions.  A byte is an integer 0..255 and a byte slice a sequence   *)
(* of bytes.  A *Cell is an index (1-based) into a heap, a sequence of     *)
(* cell records; the nil pointer is 0.  A Go uint (64 bit) is kept as its  *)
(* 8 big-endian bytes so that the wrap-around of readNBytesUIntFromArray   *)
(* and of the int products of parseBocHeader is the code's.  A Go call     *)
(* ends "ok", with an "error" value, or in a "panic" (a run-time error:    *)
(* index out of range, nil dereference, stack overflow).  Memory is not    *)
(* bounded: a loop runs for as many rounds as the input declares.          *)
(***************************************************************************)
EXTENDS Integers, Sequences, FiniteSets, TLC

VARIABLES heap, calls, stream, out

vars == <<heap, calls, stream, out>>

-----------------------------------------------------------------------------
(* Bounds of the model *)

\* cells allocated in one run of Spec
MaxCells == 3
\* cells allocated in one run of SpecCell
MaxCellObjects == 2
\* AddReference calls of one run of SpecCell
MaxAddCalls == 5
\* references held by the heap of one run of Spec
MaxEdges == 3
\* payload writes of one run of Spec
MaxWrites == 1
\* largest cell count and descriptor size given to the width computation
MaxCount == 300

-----------------------------------------------------------------------------
(* Bytes and bits *)

Byte == 0..255

Pow2(k) == 2^k

\* bit k (0 = least significant) of byte b:  (b >> k) & 1
BitOf(b, k) == (b \div Pow2(k)) % 2

Min(a, b) == IF a < b THEN a ELSE b

Max(a, b) == IF a > b THEN a ELSE b

\* s[n:] of a Go slice
Drop(s, n) == SubSeq(s, n + 1, Len(s))

\* s[0:n] of a Go slice
Take(s, n) == SubSeq(s, 1, n)

\* a ^ b on bytes
XorByte(a, b) ==
    LET x(k) == ((BitOf(a, k) + BitOf(b, k)) % 2) * Pow2(k)
    IN  x(0) + x(1) + x(2) + x(3) + x(4) + x(5) + x(6) + x(7)

\* ByteArrayEquals: same length and same bytes
ByteArrayEquals(a, b) ==
    /\ Len(a) = Len(b)
    /\ \A i \in 1..Len(a) : a[i] = b[i]

reachBocMagicPrefix == <<181, 238, 156, 114>>

leanBocMagicPrefix == <<104, 255, 101, 243>>

leanBocMagicPrefixCRC == <<172, 195, 167, 40>>

-----------------------------------------------------------------------------
(* hash/crc32 with the Castagnoli polynomial.  A 32-bit value is kept as   *)
(* its 4 little-endian bytes, the order binary.LittleEndian reads and      *)
(* writes.                                                                 *)

\* the reflected Castagnoli polynomial 0x82F63B78
CastagnoliLE == <<120, 59, 246, 130>>

Xor32(a, b) ==
    <<XorByte(a[1], b[1]), XorByte(a[2], b[2]), XorByte(a[3], b[3]), XorByte(a[4], b[4])>>

\* v >> 1
Shr1(v) ==
    <<(v[1] \div 2) + (v[2] % 2) * 128, (v[2] \div 2) + (v[3] % 2) * 128,
      (v[3] \div 2) + (v[4] % 2) * 128, v[4] \div 2>>

\* v >> 8
Shr8(v) == <<v[2], v[3], v[4], 0>>

RECURSIVE CrcBitSteps(_, _)
CrcBitSteps(v, n) ==
    IF n = 0 THEN v
    ELSE CrcBitSteps(IF v[1] % 2 = 1 THEN Xor32(Shr1(v), CastagnoliLE)
                     ELSE Shr1(v), n - 1)

\* crc32.MakeTable(crc32.Castagnoli)
crcTable == [i \in Byte |-> CrcBitSteps(<<i, 0, 0, 0>>, 8)]

RECURSIVE CrcUpdate(_, _, _)
\* crc = table[byte(crc) ^ data[i]] ^ (crc >> 8), byte after byte (the
\* test of next[1] makes TLC compute each step before it takes the next)
CrcUpdate(crc, data, i) ==
    IF i > Len(data) THEN crc
    ELSE LET next == Xor32(crcTable[XorByte(crc[1], data[i])], Shr8(crc))
         IN  IF next[1] \in Byte THEN CrcUpdate(next, data, i + 1) ELSE next

\* crc32.Checksum(data, crcTable), as the 4 bytes PutUint32 writes
Checksum(data) ==
    Xor32(CrcUpdate(<<255, 255, 255, 255>>, data, 1), <<255, 255, 255, 255>>)

-----------------------------------------------------------------------------
(* 64-bit unsigned integers *)

U64Zero == <<0, 0, 0, 0, 0, 0, 0, 0>>

\* the inputs are shorter than 2^24 bytes: in a comparison with a slice
\* length or a slice index every value at or above this bound acts alike
Huge == 256 * 256 * 256

\* readNBytesUIntFromArray for n <= len(arr): res = res*256 + arr[i], which
\* keeps the low 64 bits, the last 8 bytes read
readNBytesUIntFromArray(n, arr) ==
    LET all == U64Zero \o Take(arr, n)
    IN  SubSeq(all, Len(all) - 7, Len(all))

\* the read arr[i] of readNBytesUIntFromArray leaves the slice
ReadOutOfRange(n, arr) == n > Len(arr)

\* uint(v) as a number, Huge standing for every value >= 2^24
UintOf(v) ==
    IF \E i \in 1..5 : v[i] # 0 THEN Huge
    ELSE v[6] * 65536 + v[7] * 256 + v[8]

\* int(v): -1 stands for every negative value, Huge for every value >= 2^24
IntOf(v) == IF v[1] >= 128 THEN -1 ELSE UintOf(v)

\* uint(n) of a slice length or slice index n
U64Of(n) ==
    <<0, 0, 0, 0, (n \div 16777216) % 256, (n \div 65536) % 256,
      (n \div 256) % 256, n % 256>>

\* a < b of two uints
U64Less(a, b) ==
    \E i \in 1..8 : a[i] < b[i] /\ \A j \in 1..(i - 1) : a[j] = b[j]

\* int(a) < int(b)
IntLess(a, b) ==
    IF (a[1] >= 128) # (b[1] >= 128) THEN a[1] >= 128 ELSE U64Less(a, b)

RECURSIVE U64MulFrom(_, _, _, _)
U64MulFrom(v, k, i, carry) ==
    IF i = 0 THEN <<>>
    ELSE LET p == v[i] * k + carry
         IN  U64MulFrom(v, k, i - 1, p \div 256) \o <<p % 256>>

\* int(v) * k on 64 bits, k >= 0
U64Mul(v, k) == U64MulFrom(v, k, 8, 0)

RECURSIVE U64DecFrom(_, _)
U64DecFrom(v, i) ==
    IF i = 0 THEN v
    ELSE IF v[i] > 0 THEN [v EXCEPT ![i] = v[i] - 1]
    ELSE U64DecFrom([v EXCEPT ![i] = 255], i - 1)

\* v - 1 on 64 bits
U64Dec(v) == U64DecFrom(v, 8)

\* bits.Len(uint(x)): the number of bits of x
RECURSIVE BitsLen(_)
BitsLen(x) == IF x = 0 THEN 0 ELSE 1 + BitsLen(x \div 2)

\* math.Ceil(float64(a) / float64(b)) for integers a >= 0, b > 0
CeilDiv(a, b) == (a + b - 1) \div b

-----------------------------------------------------------------------------
(* BitString: the bit buffer of a cell payload and of the serialized       *)
(* stream.  The written bits are a sequence of 0/1 whose length is the     *)
(* cursor; the storage behind the cursor is zero.                          *)

\* the capacity NewCell gives a cell's BitString
CellBitCapacity == 1023

\* the width bits of v, most significant first (WriteUint)
UintBits(v, width) == [i \in 1..width |-> (v \div Pow2(width - i)) % 2]

ByteBits(b) == UintBits(b, 8)

RECURSIVE BytesBits(_)
\* the bits of a byte slice (WriteBytes)
BytesBits(bytes) ==
    IF bytes = <<>> THEN <<>> ELSE ByteBits(Head(bytes)) \o BytesBits(Tail(bytes))

\* the byte holding bits 8k+1 .. 8k+8 of the buffer, zero behind the cursor
BufByte(bits, k) ==
    LET b(j) == IF 8 * k + j <= Len(bits) THEN bits[8 * k + j] * Pow2(8 - j) ELSE 0
    IN  b(1) + b(2) + b(3) + b(4) + b(5) + b(6) + b(7) + b(8)

\* the first ceil(cursor/8) bytes of the buffer
BufBytes(bits) == [k \in 1..CeilDiv(Len(bits), 8) |-> BufByte(bits, k - 1)]

\* GetTopUppedArray: the written bits in whole bytes; a buffer that is not
\* byte aligned gets one terminator bit 1 and zero fill
GetTopUppedArray(bits) ==
    IF Len(bits) % 8 = 0 THEN BufBytes(bits) ELSE BufBytes(bits \o <<1>>)

RECURSIVE EndBitScan(_, _, _)
\* the cursor after stepping back over at most 7 bits to the terminator
EndBitScan(allBits, cursor, steps) ==
    IF steps = 7 THEN cursor
    ELSE IF allBits[cursor] = 1 THEN cursor - 1
    ELSE EndBitScan(allBits, cursor - 1, steps + 1)

\* SetTopUppedArray: the bits a padded byte array and its fullfilled flag
\* stand for (its error, a missing terminator, is dropped by the caller)
SetTopUppedArray(arr, fullfilledBytes) ==
    LET allBits == BytesBits(arr)
    IN  IF fullfilledBytes \/ arr = <<>> THEN allBits
        ELSE Take(allBits, EndBitScan(allBits, Len(allBits), 0))

-----------------------------------------------------------------------------
(* Cell (cell.go) *)

NilCell == 0

\* NewCell(): no payload, four nil reference slots
NewCell == [bits |-> <<>>, isExotic |-> FALSE, refs |-> <<0, 0, 0, 0>>]

\* NewCellExotic()
NewCellExotic == [bits |-> <<>>, isExotic |-> TRUE, refs |-> <<0, 0, 0, 0>>]

\* c.Refs(): the non-nil entries of c.refs, in order
Refs(cell) == SelectSeq(cell.refs, LAMBDA r : r # NilCell)

\* c.RefsSize()
RefsSize(cell) == Len(Refs(cell))

\* c.BitSize()
BitSize(cell) == Len(cell.bits)

\* a faulty variant of the test: it lets a fifth reference in
ReferencesFilledLate(cell) == RefsSize(cell) > 4

\* the test of AddReference that refuses a further reference
ReferencesFilled(cell) == RefsSize(cell) = 4

\* c.AddReference(c2): the cell afterwards and the error returned
AddReference(cell, c2) ==
    IF ReferencesFilled(cell)
    THEN [cell |-> cell, err |-> "cell references are filled"]
    ELSE [cell |-> [cell EXCEPT !.refs = Append(cell.refs, c2)], err |-> "nil"]

-----------------------------------------------------------------------------
(* The cell graph of a heap h *)

Cells(h) == 1..Len(h)

\* the cells c references directly
Children(h, c) == {Refs(h[c])[i] : i \in 1..RefsSize(h[c])}

RECURSIVE ReachFrom(_, _, _)
\* the cells reached from the set front by following references
ReachFrom(h, front, found) ==
    LET new == UNION {Children(h, c) : c \in front} \ found
    IN  IF new = {} THEN found ELSE ReachFrom(h, new, found \cup new)

\* the cells reached from c by one or more references
ReachPlus(h, c) == ReachFrom(h, {c}, {})

\* c, or a cell reached from c, reaches itself
OnCycle(h, c) == \E d \in ReachPlus(h, c) \cup {c} : d \in ReachPlus(h, d)

-----------------------------------------------------------------------------
(* Content hash (boc.go).  getMaxDepth, hashRepr and hashCell recurse over *)
(* the references and are defined on the cells that reach no cycle.        *)

RECURSIVE getMaxDepth(_, _)
getMaxDepth(h, c) ==
    LET rs == Refs(h[c])
        d(i) == getMaxDepth(h, rs[i])
        deepest == CHOOSE m \in {d(i) : i \in 1..Len(rs)} :
                       \A i \in 1..Len(rs) : d(i) <= m
    IN  IF Len(rs) > 0 THEN deepest + 1 ELSE 0

\* d2 of a cell descriptor: byte((bits+7)/8 + bits/8)
DescriptorD2(bitSize) == (((bitSize + 7) \div 8) + (bitSize \div 8)) % 256

\* bocReprWithoutRefs: d1, d2 and the payload bytes with the terminator bit
bocReprWithoutRefs(cell) ==
    LET size == BitSize(cell)
        n == (size + 7) \div 8
        buf == BufBytes(cell.bits)
        body == [k \in 1..n |->
                   IF k = n /\ size % 8 # 0
                   THEN buf[k] + (1 - BitOf(buf[k], 7 - (size % 8))) * Pow2(7 - (size % 8))
                   ELSE buf[k]]
    IN  <<RefsSize(cell) % 256, DescriptorD2(size)>> \o body

\* binary.BigEndian.PutUint16(depthRepr, uint16(depth))
DepthRepr(depth) == <<(depth \div 256) % 256, depth % 256>>

RECURSIVE DepthBytes(_, _)
DepthBytes(h, rs) ==
    IF rs = <<>> THEN <<>>
    ELSE DepthRepr(getMaxDepth(h, Head(rs))) \o DepthBytes(h, Tail(rs))

RECURSIVE hashCell(_, _)
\* sha256.Sum256(hashRepr(cell)): the digest is kept as what it digests,
\* the descriptor, payload and depth bytes and the digests of the
\* references, so that two digests are equal exactly when their inputs are
hashCell(h, c) ==
    LET rs == Refs(h[c])
    IN  [repr |-> bocReprWithoutRefs(h[c]) \o DepthBytes(h, rs),
         refs |-> [i \in 1..Len(rs) |-> hashCell(h, rs[i])]]

-----------------------------------------------------------------------------
(* Topological linearizer (boc.go) *)

RECURSIVE topologicalSortImpl(_, _, _)
RECURSIVE SortRefs(_, _, _, _)

\* a faulty variant of the loop: the references are visited last to first
SortRefsLastFirst(h, rs, i, acc) ==
    IF i > Len(rs) THEN acc
    ELSE LET sub == topologicalSortImpl(h, rs[Len(rs) + 1 - i], acc.seen)
         IN  IF sub.err # "nil" THEN sub
             ELSE SortRefs(h, rs, i + 1,
                           [err |-> "nil", res |-> acc.res \o sub.res, seen |-> sub.seen])

\* the loop over cell.Refs() of topologicalSortImpl, from reference i on
SortRefs(h, rs, i, acc) ==
    IF i > Len(rs) THEN acc
    ELSE LET sub == topologicalSortImpl(h, rs[i], acc.seen)
         IN  IF sub.err # "nil" THEN sub
             ELSE SortRefs(h, rs, i + 1,
                           [err |-> "nil", res |-> acc.res \o sub.res, seen |-> sub.seen])

\* a faulty variant of the test: no hash is ever recognised
AlreadySeenNever(hash, seen) == FALSE

\* the hash already seen ends the traversal
AlreadySeen(hash, seen) == hash \in seen

topologicalSortImpl(h, c, seen) ==
    LET hash == hashCell(h, c)
    IN  IF AlreadySeen(hash, seen)
        THEN [err |-> "circular references are not allowed", res |-> <<>>, seen |-> seen]
        ELSE SortRefs(h, Refs(h[c]), 1,
                      [err |-> "nil", res |-> <<c>>, seen |-> seen \cup {hash}])

\* the index map of topologicalSort: hash -> last position holding it
IndexesMap(h, res) ==
    [hash \in {hashCell(h, res[i]) : i \in 1..Len(res)} |->
        (CHOOSE i \in 1..Len(res) :
            /\ hashCell(h, res[i]) = hash
            /\ \A j \in 1..Len(res) : hashCell(h, res[j]) = hash => j <= i) - 1]

\* topologicalSort: the cell list and the index map, or the error
topologicalSort(h, c) ==
    LET r == topologicalSortImpl(h, c, {})
    IN  IF r.err # "nil" THEN [err |-> r.err, res |-> <<>>, indexesMap |-> <<>>]
        ELSE [err |-> "nil", res |-> r.res, indexesMap |-> IndexesMap(h, r.res)]

-----------------------------------------------------------------------------
(* SerializeBoc (boc.go) *)

\* bocRepr: the descriptor and payload, then one byte per reference
bocRepr(h, c, indexesMap) ==
    LET rs == Refs(h[c])
    IN  bocReprWithoutRefs(h[c]) \o
        [i \in 1..Len(rs) |-> indexesMap[hashCell(h, rs[i])] % 256]

\* sBytes := int(math.Min(math.Ceil(float64(sBits)/8), 1))
SizeBytes(cellsNum) == Min(CeilDiv(BitsLen(cellsNum), 8), 1)

\* offsetBytes := int(math.Max(math.Ceil(float64(offsetBits)/8), 1))
OffsetBytes(fullSize) == Max(CeilDiv(BitsLen(fullSize), 8), 1)

RECURSIVE SumLen(_)
SumLen(seqs) == IF seqs = <<>> THEN 0 ELSE Len(Head(seqs)) + SumLen(Tail(seqs))

RECURSIVE Concat(_)
Concat(seqs) == IF seqs = <<>> THEN <<>> ELSE Head(seqs) \o Concat(Tail(seqs))

BoolBit(b) == IF b THEN 1 ELSE 0

\* the bits SerializeBoc writes into serStr
SerializedBits(reprs, idx, hasCrc32, cacheBits, flags) ==
    LET cellsNum == Len(reprs)
        sBytes == SizeBytes(cellsNum)
        fullSize == SumLen(reprs)
        sizeIndex == [i \in 1..cellsNum |-> SumLen(Take(reprs, i - 1))]
        offsetBytes == OffsetBytes(fullSize)
    IN  BytesBits(reachBocMagicPrefix)
        \o <<BoolBit(idx), BoolBit(hasCrc32), BoolBit(cacheBits)>>
        \o UintBits(flags, 2)
        \o UintBits(sBytes, 3)
        \o UintBits(offsetBytes, 8)
        \o UintBits(cellsNum, sBytes * 8)
        \o UintBits(1, sBytes * 8)
        \o UintBits(0, sBytes * 8)
        \o UintBits(fullSize, offsetBytes * 8)
        \o UintBits(0, sBytes * 8)
        \o (IF idx
            THEN Concat([i \in 1..cellsNum |-> UintBits(sizeIndex[i], offsetBytes * 8)])
            ELSE <<>>)
        \o BytesBits(Concat(reprs))

\* the checksum trailer SerializeBoc appends
WithChecksum(resBytes, hasCrc32) ==
    IF hasCrc32 THEN resBytes \o Checksum(resBytes) ELSE resBytes

\* SerializeBoc(cell, idx, hasCrc32, cacheBits, flags) on the heap h
SerializeBoc(h, cell, idx, hasCrc32, cacheBits, flags) ==
    IF OnCycle(h, cell)
    THEN [status |-> "panic", err |-> "stack overflow", bytes |-> <<>>]
    ELSE LET sorted == topologicalSort(h, cell)
             reprs == [i \in 1..Len(sorted.res) |->
                         bocRepr(h, sorted.res[i], sorted.indexesMap)]
             resBytes == GetTopUppedArray(
                             SerializedBits(reprs, idx, hasCrc32, cacheBits, flags))
         IN  IF sorted.err # "nil"
             THEN [status |-> "error", err |-> sorted.err, bytes |-> <<>>]
             ELSE [status |-> "ok", err |-> "nil",
                   bytes |-> WithChecksum(resBytes, hasCrc32)]

-----------------------------------------------------------------------------
(* parseBocHeader (boc.go).  The result is a record: status, the error     *)
(* text, the header, and whether the checksum was compared.                *)

NoHeader == [hasIdx |-> FALSE, hashCrc32 |-> FALSE, hasCacheBits |-> FALSE,
             flags |-> 0, sizeBytes |-> 0, cellsNum |-> U64Zero,
             rootsNum |-> U64Zero, absentNum |-> U64Zero,
             totCellsSize |-> U64Zero, rootList |-> <<>>,
             index |-> [len |-> U64Zero, items |-> <<>>],
             cellsData |-> <<>>]

ParseError(msg, crcCompared) ==
    [status |-> "error", err |-> msg, header |-> NoHeader, crcCompared |-> crcCompared]

ParsePanic(msg) ==
    [status |-> "panic", err |-> msg, header |-> NoHeader, crcCompared |-> FALSE]

\* the flags the magic prefix and the byte after it select
HeaderFlags(prefix, flagsByte) ==
    IF ByteArrayEquals(prefix, reachBocMagicPrefix)
    THEN [known |-> TRUE,
          hasIdx |-> BitOf(flagsByte, 7) = 1,
          hashCrc32 |-> BitOf(flagsByte, 6) = 1,
          hasCacheBits |-> BitOf(flagsByte, 5) = 1,
          flags |-> BitOf(flagsByte, 4) * 16 * 2 + BitOf(flagsByte, 3) * 8,
          sizeBytes |-> flagsByte % 8]
    ELSE IF ByteArrayEquals(prefix, leanBocMagicPrefix)
    THEN [known |-> TRUE, hasIdx |-> TRUE, hashCrc32 |-> FALSE,
          hasCacheBits |-> FALSE, flags |-> 0, sizeBytes |-> flagsByte]
    ELSE IF ByteArrayEquals(prefix, leanBocMagicPrefixCRC)
    THEN [known |-> TRUE, hasIdx |-> TRUE, hashCrc32 |-> TRUE,
          hasCacheBits |-> FALSE, flags |-> 0, sizeBytes |-> flagsByte]
    ELSE [known |-> FALSE, hasIdx |-> FALSE, hashCrc32 |-> FALSE,
          hasCacheBits |-> FALSE, flags |-> 0, sizeBytes |-> 0]

\* a loop "for i := 0; i < int(count); i++ { append(list,
\* readNBytesUIntFromArray(width, boc)); boc = boc[width:] }": the slice
\* built and the slice left.  The slice built has len entries: the values
\* in items, and after them zeros (a read of width 0 is 0 and takes nothing
\* of boc, so that the loop runs its int(count) rounds on any input)
ReadList(count, width, boc) ==
    IF IntOf(count) <= 0
    THEN [status |-> "ok", list |-> [len |-> U64Zero, items |-> <<>>], rest |-> boc]
    ELSE IF width = 0
    THEN [status |-> "ok", list |-> [len |-> count, items |-> <<>>], rest |-> boc]
    ELSE IF IntOf(count) > Len(boc) \div width
    THEN [status |-> "panic", list |-> [len |-> U64Zero, items |-> <<>>],
          rest |-> <<>>]
    ELSE [status |-> "ok",
          list |-> [len |-> count,
                    items |-> [i \in 1..IntOf(count) |->
                                 readNBytesUIntFromArray(
                                     width, Drop(boc, (i - 1) * width))]],
          rest |-> Drop(boc, IntOf(count) * width)]

\* the checks that guard the header's reads and slices
CountersMissing(boc, sizeBytes) == Len(boc) < 1 + 5 * sizeBytes

RootsMissing(boc, rootsNum, sizeBytes) == Len(boc) < IntOf(U64Mul(rootsNum, sizeBytes))

IndexMissing(boc, offsetBytes, cellsNum) == Len(boc) < IntOf(U64Mul(cellsNum, offsetBytes))

CellsDataMissing(boc, totCellsSize) == Len(boc) < IntOf(totCellsSize)

ChecksumMissing(boc) == Len(boc) < 4

\* a faulty variant of the comparison: every trailer is accepted
ChecksumMismatchNever(boc, originalBoc) == FALSE

\* binary.LittleEndian.Uint32(boc[0:4]) != crc32.Checksum(originalBoc[0:len-4])
ChecksumMismatch(boc, originalBoc) ==
    Take(boc, 4) # Checksum(Take(originalBoc, Len(originalBoc) - 4))

\* lines 143-178: the cell data, the checksum and the trailing bytes
ParseCells(originalBoc, boc, f, hd) ==
    IF CellsDataMissing(boc, hd.totCellsSize)
    THEN ParseError("not enough bytes for cells data", FALSE)
    ELSE IF UintOf(hd.totCellsSize) > Len(boc)
    THEN ParsePanic("slice bounds out of range")
    ELSE LET size == UintOf(hd.totCellsSize)
             rest == Drop(boc, size)
             header == [hd EXCEPT !.cellsData = Take(boc, size)]
         IN  IF f.hashCrc32 /\ ChecksumMissing(rest)
             THEN ParseError("not enough bytes for crc32c hashsum", FALSE)
             ELSE IF f.hashCrc32 /\ ChecksumMismatch(rest, originalBoc)
             THEN ParseError("crc32c hashsum mismatch", TRUE)
             ELSE IF Len(IF f.hashCrc32 THEN Drop(rest, 4) ELSE rest) > 0
             THEN ParseError("too much bytes in provided boc", f.hashCrc32)
             ELSE [status |-> "ok", err |-> "nil", header |-> header,
                   crcCompared |-> f.hashCrc32]

\* lines 131-141: the index
ParseIndex(originalBoc, boc, f, offsetBytes, hd) ==
    IF ~f.hasIdx THEN ParseCells(originalBoc, boc, f, hd)
    ELSE IF IndexMissing(boc, offsetBytes, hd.cellsNum)
    THEN ParseError("not enough bytes for index encoding", FALSE)
    ELSE LET idx == ReadList(hd.cellsNum, offsetBytes, boc)
         IN  IF idx.status = "panic" THEN ParsePanic("index out of range")
             ELSE ParseCells(originalBoc, idx.rest, f, [hd EXCEPT !.index = idx.list])

\* lines 125-129: the root list.  rootsNum was read in sizeBytes bytes as
\* the entries are, so that it is 0 when the width is 0: every entry of the
\* list is one that was read
ParseRoots(originalBoc, boc, f, offsetBytes, hd, roots) ==
    IF roots.status = "panic" THEN ParsePanic("index out of range")
    ELSE ParseIndex(originalBoc, roots.rest, f, offsetBytes,
                    [hd EXCEPT !.rootList = roots.list.items])

\* lines 104-123: the widths and the counters, then the root list
ParseCounters(originalBoc, boc, f) ==
    IF CountersMissing(boc, f.sizeBytes)
    THEN ParseError("not enough bytes for encoding cells counters", FALSE)
    ELSE LET offsetBytes == boc[1]
             b1 == Drop(boc, 1)
             b2 == Drop(b1, f.sizeBytes)
             b3 == Drop(b2, f.sizeBytes)
             b4 == Drop(b3, f.sizeBytes)
             hd == [NoHeader EXCEPT
                      !.hasIdx = f.hasIdx, !.hashCrc32 = f.hashCrc32,
                      !.hasCacheBits = f.hasCacheBits, !.flags = f.flags,
                      !.sizeBytes = f.sizeBytes,
                      !.cellsNum = readNBytesUIntFromArray(f.sizeBytes, b1),
                      !.rootsNum = readNBytesUIntFromArray(f.sizeBytes, b2),
                      !.absentNum = readNBytesUIntFromArray(f.sizeBytes, b3),
                      !.totCellsSize = readNBytesUIntFromArray(offsetBytes, b4)]
         IN  IF ReadOutOfRange(offsetBytes, b4) THEN ParsePanic("index out of range")
             ELSE IF RootsMissing(Drop(b4, offsetBytes), hd.rootsNum, f.sizeBytes)
             THEN ParseError("not enough bytes for encoding root cells hashes", FALSE)
             ELSE ParseRoots(originalBoc, Drop(b4, offsetBytes), f, offsetBytes, hd,
                             ReadList(readNBytesUIntFromArray(f.sizeBytes, b2),
                                      f.sizeBytes, Drop(b4, offsetBytes)))

\* len(boc) < 4+1
MagicMissing(boc) == Len(boc) < 4 + 1

parseBocHeader(boc) ==
    IF MagicMissing(boc) THEN ParseError("not enough bytes for magic prefix", FALSE)
    ELSE LET f == HeaderFlags(Take(boc, 4), boc[5])
         IN  IF ~f.known THEN ParseError("unknown magic prefix", FALSE)
             ELSE ParseCounters(boc, Drop(boc, 5), f)

-----------------------------------------------------------------------------
(* deserializeCellData and DeserializeBoc (boc.go) *)

\* a faulty variant of the data length: d2/2 rounded down
DataBytesSizeFloor(d2) == d2 \div 2

\* dataBytesSize := int(math.Ceil(float64(d2) / float64(2)))
DataBytesSize(d2) == CeilDiv(d2, 2)

\* fullfilledBytes := !((d2 % 2) > 0)                    (boc/boc.go)
FullfilledBytes(d2) == ~((d2 % 2) > 0)

\* fullfilledBytes := ^(d2 % 2) > 0, ^ the complement of a byte
\* (the second copy of deserializeCellData)
FullfilledBytesCopy(d2) == (255 - (d2 % 2)) > 0

\* the cell data is too short for the payload and the references
CellDataMissing(cellData, dataBytesSize, referenceIndexSize, refNum) ==
    Len(cellData) < dataBytesSize + referenceIndexSize * refNum

\* deserializeCellData: the cell, its reference indices and the residue;
\* on an error all three are nil
deserializeCellData(cellData, referenceIndexSize) ==
    LET d1 == cellData[1]
        d2 == cellData[2]
        body == Drop(cellData, 2)
        isExotic == BitOf(d1, 3) = 1
        refNum == d1 % 8
        dataBytesSize == DataBytesSize(d2)
        afterData == Drop(body, dataBytesSize)
        failed(msg) == [err |-> msg, cell |-> NewCell, refs |-> <<>>, residue |-> <<>>]
    IN  IF Len(cellData) < 2
        THEN failed("not enough bytes to encode cell descriptors")
        ELSE IF CellDataMissing(body, dataBytesSize, referenceIndexSize, refNum)
        THEN failed("not enough bytes to encode cell data")
        ELSE [err |-> "nil",
              cell |-> [(IF isExotic THEN NewCellExotic ELSE NewCell) EXCEPT
                          !.bits = SetTopUppedArray(Take(body, dataBytesSize),
                                                    FullfilledBytes(d2))],
              refs |-> [i \in 1..refNum |->
                          readNBytesUIntFromArray(
                              referenceIndexSize,
                              Drop(afterData, (i - 1) * referenceIndexSize))],
              residue |-> Drop(afterData, refNum * referenceIndexSize)]

RECURSIVE DecodeCells(_, _, _, _)
\* the first loop of DeserializeBoc, up to the first cell that fails to
\* decode: that cell and, the residue being nil, every later one are nil
DecodeCells(cellsData, sizeBytes, n, acc) ==
    IF n = 0 THEN acc
    ELSE LET d == deserializeCellData(cellsData, sizeBytes)
         IN  IF d.err # "nil" THEN acc
             ELSE DecodeCells(d.residue, sizeBytes, n - 1,
                              [cells |-> Append(acc.cells, d.cell),
                               refs |-> Append(acc.refs, d.refs)])

\* r < i, r the int of a reference index: the reference points backwards
OrderBroken(r, i) == IntLess(r, U64Of(i))

\* the pointer cellsArray[r] for r inside the array: the cells that were
\* not decoded are nil
CellAt(cells, r) == IF UintOf(r) < Len(cells) THEN UintOf(r) + 1 ELSE NilCell

RECURSIVE LinkCells(_, _, _, _, _)
\* the second loop of DeserializeBoc at cell i (0-based), reference ri;
\* cellsArray has int(cellsNum) entries, the decoded cells and then nil
LinkCells(cells, refs, cellsNum, i, ri) ==
    IF i < 0 THEN [status |-> "ok", err |-> "nil", cells |-> cells]
    ELSE IF ri >= Len(refs[i + 1]) THEN LinkCells(cells, refs, cellsNum, i - 1, 0)
    ELSE LET r == refs[i + 1][ri + 1]
         IN  IF OrderBroken(r, i)
             THEN [status |-> "error", err |-> "topological order is broken",
                   cells |-> <<>>]
             ELSE IF ri >= Len(cells[i + 1].refs) \/ ~IntLess(r, cellsNum)
             THEN [status |-> "panic", err |-> "index out of range", cells |-> <<>>]
             ELSE LinkCells([cells EXCEPT ![i + 1].refs[ri + 1] = CellAt(cells, r)],
                            refs, cellsNum, i, ri + 1)

\* lines 232-242: the loop starts at int(cellsNum - 1) and indexes
\* refsArray, of max(int(cellsNum), 0) entries; it has no round when the
\* start is negative, and passes over the entries that were not decoded,
\* whose reference list is nil
LinkAll(cellsNum, decoded) ==
    IF IntOf(U64Dec(cellsNum)) < 0
    THEN [status |-> "ok", err |-> "nil", cells |-> decoded.cells]
    ELSE IF IntOf(cellsNum) <= 0
    THEN [status |-> "panic", err |-> "index out of range", cells |-> <<>>]
    ELSE LinkCells(decoded.cells, decoded.refs, cellsNum, Len(decoded.cells) - 1, 0)

DecodeFailure(status, msg) ==
    [status |-> status, err |-> msg, cells |-> <<>>, roots |-> <<>>]

\* lines 244-250: the root cells, as indices into the linked cells (NilCell
\* for a nil pointer); an item at or beyond len(cellsArray) is out of range
RootCells(rootList, linked, cellsNum) ==
    IF linked.status # "ok" THEN DecodeFailure(linked.status, linked.err)
    ELSE IF \E k \in 1..Len(rootList) :
                IntOf(cellsNum) <= 0 \/ ~U64Less(rootList[k], cellsNum)
    THEN DecodeFailure("panic", "index out of range")
    ELSE [status |-> "ok", err |-> "nil", cells |-> linked.cells,
          roots |-> [k \in 1..Len(rootList) |-> CellAt(linked.cells, rootList[k])]]

\* lines 232-250: the second loop and the roots
DecodeLinked(header, decoded) ==
    RootCells(header.rootList, LinkAll(header.cellsNum, decoded), header.cellsNum)

\* lines 221-250: the first loop, of int(cellsNum) rounds, then the rest
DecodeHeader(header) ==
    DecodeLinked(header,
                 DecodeCells(header.cellsData, header.sizeBytes,
                             Max(IntOf(header.cellsNum), 0),
                             [cells |-> <<>>, refs |-> <<>>]))

\* what DeserializeBoc does with the result p of parseBocHeader: the error
\* is dropped and the header, nil after an error, is dereferenced
DecodeParsed(p) ==
    IF p.status = "panic" THEN DecodeFailure(p.status, p.err)
    ELSE IF p.status = "error"
    THEN DecodeFailure("panic", "nil pointer dereference")
    ELSE DecodeHeader(p.header)

\* DeserializeBoc: the root cells and the cells built
DeserializeBoc(boc) == DecodeParsed(parseBocHeader(boc))

-----------------------------------------------------------------------------
(* The state: heap holds the cells allocated so far, calls the             *)
(* (cell, reference) arguments of the AddReference calls made, stream the  *)
(* byte slice at hand (the output of SerializeBoc, the input of the        *)
(* decoder), out the operation done last and what it returned.             *)

Init ==
    /\ heap = <<>>
    /\ calls = <<>>
    /\ stream = <<>>
    /\ out = [op |-> "none"]

\* the payloads written into a cell: 4 bits (not byte aligned) and 8 bits
PayloadChoices == {<<1, 0, 1, 1>>, <<1, 0, 1, 1, 0, 1, 0, 1>>}

\* the references held by the cells of h
EdgeCount(h) == SumLen([c \in 1..Len(h) |-> Refs(h[c])])

\* the cells of h that carry a payload
WrittenCells(h) == {c \in Cells(h) : h[c].bits # <<>>}

\* the producer is still building: nothing has been serialized yet
Building == stream = <<>> /\ out.op \notin {"SerializeBoc", "DeserializeBoc"}

\* c := NewCell()
NewCellOp(limit) ==
    /\ Len(heap) < limit
    /\ Building
    /\ heap' = Append(heap, NewCell)
    /\ out' = [op |-> "NewCell"]
    /\ UNCHANGED <<calls, stream>>

\* c := NewCellExotic()
NewCellExoticOp(limit) ==
    /\ Len(heap) < limit
    /\ Building
    /\ heap' = Append(heap, NewCellExotic)
    /\ out' = [op |-> "NewCellExotic"]
    /\ UNCHANGED <<calls, stream>>

\* c.Bits.WriteBitArray(payload) on an empty payload
WriteOp(c, payload) ==
    /\ Building
    /\ heap[c].bits = <<>>
    /\ Len(payload) <= CellBitCapacity
    /\ heap' = [heap EXCEPT ![c].bits = payload]
    /\ out' = [op |-> "Write"]
    /\ UNCHANGED <<calls, stream>>

\* c.AddReference(c2)
AddReferenceOp(c, c2) ==
    LET r == AddReference(heap[c], c2)
    IN  /\ Building
        /\ heap' = [heap EXCEPT ![c] = r.cell]
        /\ out' = [op |-> "AddReference", err |-> r.err]
        /\ UNCHANGED stream

\* topologicalSort(c); on a cell that reaches a cycle the recursion of
\* c.HashString() does not return
TopologicalSortOp(c) ==
    /\ Building
    /\ out' = IF OnCycle(heap, c)
              THEN [op |-> "topologicalSort", cell |-> c, status |-> "panic",
                    err |-> "stack overflow", res |-> <<>>, indexesMap |-> <<>>]
              ELSE LET r == topologicalSort(heap, c)
                   IN  [op |-> "topologicalSort", cell |-> c,
                        status |-> IF r.err = "nil" THEN "ok" ELSE "error",
                        err |-> r.err, res |-> r.res, indexesMap |-> r.indexesMap]
    /\ UNCHANGED <<heap, calls, stream>>

\* stream, err := SerializeBoc(c, idx, hasCrc32, false, 0)
SerializeBocOp(c, idx, hasCrc32) ==
    LET r == SerializeBoc(heap, c, idx, hasCrc32, FALSE, 0)
    IN  /\ Building
        /\ stream' = r.bytes
        /\ out' = [op |-> "SerializeBoc", cell |-> c, idx |-> idx,
                   hasCrc32 |-> hasCrc32, status |-> r.status, err |-> r.err]
        /\ UNCHANGED <<heap, calls>>

\* the provenance of the stream a decoder is given: the cell it was
\* serialized from, when SerializeBoc was the operation before
SourceOf(o) == IF o.op = "SerializeBoc" /\ o.status = "ok" THEN o.cell ELSE NilCell

\* header, err := parseBocHeader(stream)
ParseBocHeaderOp ==
    LET r == parseBocHeader(stream)
    IN  /\ out.op \in {"SerializeBoc", "Corrupt", "Truncate"}
        /\ out' = [op |-> "parseBocHeader", input |-> out, status |-> r.status,
                   err |-> r.err, header |-> r.header, crcCompared |-> r.crcCompared]
        /\ UNCHANGED <<heap, calls, stream>>

\* cells, err := DeserializeBoc(stream)
DeserializeBocOp ==
    LET r == DeserializeBoc(stream)
    IN  /\ out.op \in {"none", "SerializeBoc", "Corrupt", "Truncate"}
        /\ out' = [op |-> "DeserializeBoc", input |-> out, source |-> SourceOf(out),
                   status |-> r.status, err |-> r.err, cells |-> r.cells,
                   roots |-> r.roots]
        /\ UNCHANGED <<heap, calls, stream>>

\* one byte of the serialized stream is changed on its way to the decoder
CorruptOp(pos, val) ==
    /\ out.op = "SerializeBoc"
    /\ out.status = "ok"
    /\ val # stream[pos]
    /\ stream' = [stream EXCEPT ![pos] = val]
    /\ out' = [op |-> "Corrupt", pos |-> pos, original |-> stream,
               idx |-> out.idx, hasCrc32 |-> out.hasCrc32]
    /\ UNCHANGED <<heap, calls>>

\* the serialized stream is cut to its first k bytes
TruncateOp(k) ==
    /\ out.op = "SerializeBoc"
    /\ out.status = "ok"
    /\ stream' = Take(stream, k)
    /\ out' = [op |-> "Truncate", pos |-> k, original |-> stream,
               idx |-> out.idx, hasCrc32 |-> out.hasCrc32]
    /\ UNCHANGED <<heap, calls>>

-----------------------------------------------------------------------------
(* Spec: a producer builds cells, linearizes and serializes them, and the  *)
(* stream is decoded.                                                      *)

BuildCell == NewCellOp(MaxCells)

BuildPayload ==
    \E c \in Cells(heap) : \E payload \in PayloadChoices :
        /\ Cardinality(WrittenCells(heap)) < MaxWrites
        /\ WriteOp(c, payload)

BuildReference ==
    \E c \in Cells(heap) : \E c2 \in Cells(heap) :
        /\ EdgeCount(heap) < MaxEdges
        /\ AddReferenceOp(c, c2)
        /\ UNCHANGED calls

\* the cell linearized or serialized is the one allocated first: cells are
\* allocated, written and linked in any order, so every graph with any root
\* is one of these up to the numbering of its cells
RootCell == 1

Linearize == heap # <<>> /\ TopologicalSortOp(RootCell)

Serialize ==
    \E idx \in BOOLEAN : \E hasCrc32 \in BOOLEAN :
        heap # <<>> /\ SerializeBocOp(RootCell, idx, hasCrc32)

Deserialize == DeserializeBocOp

Next ==
    \/ BuildCell
    \/ BuildPayload
    \/ BuildReference
    \/ Linearize
    \/ Serialize
    \/ Deserialize

Spec == Init /\ [][Next]_vars

-----------------------------------------------------------------------------
(* SpecCell: cells are allocated and AddReference is called with any cell  *)
(* as parent and as child; calls keeps the arguments of every call.        *)

AllocCell == NewCellOp(MaxCellObjects)

AllocExotic == NewCellExoticOp(MaxCellObjects)

CallAddReference ==
    \E c \in Cells(heap) : \E c2 \in Cells(heap) :
        /\ Len(calls) < MaxAddCalls
        /\ AddReferenceOp(c, c2)
        /\ calls' = Append(calls, <<c, c2>>)

NextCell ==
    \/ AllocCell
    \/ AllocExotic
    \/ CallAddReference

SpecCell == Init /\ [][NextCell]_vars

-----------------------------------------------------------------------------
(* SpecWire: a stream serialized from a small tree reaches the decoder     *)
(* intact, with one byte changed, or cut short, and is parsed or decoded.  *)

\* the trees serialized: a leaf with a 4-bit payload, a root with one
\* child that carries 8 bits, and a chain of four empty cells
WireHeaps ==
    { <<[NewCell EXCEPT !.bits = <<1, 0, 1, 1>>]>>,
      <<AddReference(NewCell, 2).cell,
        [NewCell EXCEPT !.bits = <<1, 0, 1, 1, 0, 1, 0, 1>>]>>,
      <<AddReference(NewCell, 2).cell, AddReference(NewCell, 3).cell,
        AddReference(NewCell, 4).cell, NewCell>> }

\* the state after SerializeBoc(root, idx, hasCrc32, false, 0) on such a tree
InitWire ==
    /\ heap \in WireHeaps
    /\ calls = <<>>
    /\ \E idx \in BOOLEAN : \E hasCrc32 \in BOOLEAN :
         LET r == SerializeBoc(heap, RootCell, idx, hasCrc32, FALSE, 0)
         IN  /\ stream = r.bytes
             /\ out = [op |-> "SerializeBoc", cell |-> RootCell, idx |-> idx,
                       hasCrc32 |-> hasCrc32, status |-> r.status, err |-> r.err]

\* the bit patterns by which a byte is changed: each single bit, the two
\* top bits, all bits
CorruptMasks == {1, 2, 4, 8, 16, 32, 64, 128, 192, 255}

Corrupt ==
    \E pos \in 1..Len(stream) : \E mask \in CorruptMasks :
        CorruptOp(pos, XorByte(stream[pos], mask))

Truncate == \E k \in 0..(Len(stream) - 1) : TruncateOp(k)

ParseHeader == ParseBocHeaderOp

DecodeStream == DeserializeBocOp

NextWire ==
    \/ Corrupt
    \/ Truncate
    \/ ParseHeader
    \/ DecodeStream

SpecWire == InitWire /\ [][NextWire]_vars

-----------------------------------------------------------------------------
(* SpecPure: the width computations of SerializeBoc and the descriptor     *)
(* arithmetic of bocReprWithoutRefs and deserializeCellData, applied to    *)
(* every cell count, data size and payload length up to the bounds.        *)

\* sBytes for a list of cellsNum cells
SizeBytesOp(cellsNum) ==
    /\ out' = [op |-> "sizeBytes", cellsNum |-> cellsNum, sBytes |-> SizeBytes(cellsNum)]
    /\ UNCHANGED <<heap, calls, stream>>

\* offsetBytes for fullSize bytes of cell data
OffsetBytesOp(fullSize) ==
    /\ out' = [op |-> "offsetBytes", fullSize |-> fullSize,
               offsetBytes |-> OffsetBytes(fullSize)]
    /\ UNCHANGED <<heap, calls, stream>>

\* d2 of a payload of bitSize bits, and what the two copies of
\* deserializeCellData derive from it
DescriptorOp(bitSize) ==
    LET d2 == DescriptorD2(bitSize)
    IN  /\ out' = [op |-> "descriptor", bitSize |-> bitSize, d2 |-> d2,
                   dataBytesSize |-> DataBytesSize(d2),
                   fullfilledBytes |-> FullfilledBytes(d2),
                   fullfilledBytesCopy |-> FullfilledBytesCopy(d2)]
        /\ UNCHANGED <<heap, calls, stream>>

ComputeSizeBytes == \E n \in 1..MaxCount : SizeBytesOp(n)

ComputeOffsetBytes == \E n \in 1..MaxCount : OffsetBytesOp(n)

ComputeDescriptor == \E b \in 0..CellBitCapacity : DescriptorOp(b)

NextPure ==
    \/ ComputeSizeBytes
    \/ ComputeOffsetBytes
    \/ ComputeDescriptor

SpecPure == Init /\ [][NextPure]_vars

-----------------------------------------------------------------------------
(* Properties.  The operators below describe a cell graph without the      *)
(* linearizer: they are what its results are compared with.                *)

RECURSIVE Preorder(_, _)
\* the depth-first preorder unfolding from c: c, then the unfolding of each
\* of its references in declared order (on a cell that reaches no cycle)
Preorder(h, c) ==
    LET rs == Refs(h[c])
    IN  <<c>> \o Concat([i \in 1..Len(rs) |-> Preorder(h, rs[i])])

RECURSIVE Shape(_, _)
\* the payload of c and, in order, the shapes of its references
Shape(h, c) ==
    LET rs == Refs(h[c])
    IN  [bits |-> h[c].bits, kids |-> [i \in 1..Len(rs) |-> Shape(h, rs[i])]]

\* the unfolding from c meets no cell object twice: c is the root of a tree
IsTree(h, c) ==
    /\ ~OnCycle(h, c)
    /\ LET p == Preorder(h, c)
       IN  \A i \in 1..Len(p) : \A j \in 1..Len(p) : i # j => p[i] # p[j]

\* the unfolding from c meets some content hash twice
RepeatedHash(h, c) ==
    /\ ~OnCycle(h, c)
    /\ LET p == Preorder(h, c)
       IN  \E i \in 1..Len(p) : \E j \in (i + 1)..Len(p) :
               hashCell(h, p[i]) = hashCell(h, p[j])

\* what a decoded root must be for the cell source of the heap
SameCell(cells, root, source) ==
    /\ root # NilCell
    /\ hashCell(cells, root) = hashCell(heap, source)
    /\ Shape(cells, root) = Shape(heap, source)

\* the input makes the header parse fail, or a cell descriptor fail to decode
DecodeMustFail(boc) ==
    LET p == parseBocHeader(boc)
        n == IntOf(p.header.cellsNum)
    IN  \/ p.status # "ok"
        \/ Len(DecodeCells(p.header.cellsData, p.header.sizeBytes, Max(n, 0),
                           [cells |-> <<>>, refs |-> <<>>]).cells) < n

\* C1: on an input whose header parse fails or one of whose cell descriptors
\* fails to decode, DeserializeBoc returns an error and no cells, and does
\* not panic.
C1_FailedDecodeIsError ==
    out.op = "DeserializeBoc" /\ DecodeMustFail(stream)
        => out.status = "error" /\ out.cells = <<>> /\ out.roots = <<>>

\* C2: parseBocHeader reads no byte outside its input: for every input and
\* every declared width it ends with a header or an error, never with an
\* out-of-range read.
C2_ReadsInsideInput ==
    out.op = "parseBocHeader" => out.status # "panic"

\* C3, as amended: a tree whose nodes have pairwise distinct content hashes
\* (and fewer than 256 cells) is serialized without error, and the stream
\* SerializeBoc returns decodes to one root with the hash and the shape of
\* the original.
C3_RoundTripDistinctHashes ==
    /\ out.op = "SerializeBoc" /\ IsTree(heap, out.cell)
         /\ ~RepeatedHash(heap, out.cell) /\ Len(Preorder(heap, out.cell)) < 256
         => out.status = "ok"
    /\ out.op = "DeserializeBoc" /\ out.source # NilCell
         => /\ out.status = "ok"
            /\ Len(out.roots) = 1
            /\ SameCell(out.cells, out.roots[1], out.source)

\* C3 reached: a root with two children, one carrying a payload that is not
\* byte aligned, went through SerializeBoc and DeserializeBoc
C3_Reached ==
    /\ out.op = "DeserializeBoc"
    /\ out.source # NilCell
    /\ out.status = "ok"
    /\ RefsSize(heap[out.source]) = 2
    /\ \E c \in Cells(heap) : heap[c].bits = <<1, 0, 1, 1>>

\* C3 as stated: every tree is serialized without error and decodes to one
\* root with the hash and the shape of the original.
C3_RoundTripEveryTree ==
    /\ out.op = "SerializeBoc" /\ IsTree(heap, out.cell) => out.status = "ok"
    /\ out.op = "DeserializeBoc" /\ out.source # NilCell
         => /\ out.status = "ok"
            /\ Len(out.roots) = 1
            /\ SameCell(out.cells, out.roots[1], out.source)

\* the (parent, child) calls made on cell c, oldest first
CallsOn(c) == SelectSeq(calls, LAMBDA p : p[1] = c)

\* the children of the first four calls on c
FirstFour(c) == [i \in 1..Min(4, Len(CallsOn(c))) |-> CallsOn(c)[i][2]]

\* C4: the first four AddReference calls on a cell succeed, every later one
\* returns 'cell references are filled' and changes nothing, and Refs() is
\* the children added, in insertion order, never more than four.
C4_ReferenceLimit ==
    /\ \A c \in Cells(heap) :
         Refs(heap[c]) = FirstFour(c) /\ RefsSize(heap[c]) <= 4
    /\ out.op = "AddReference"
         => out.err = IF Len(CallsOn(calls[Len(calls)][1])) > 4
                      THEN "cell references are filled" ELSE "nil"

\* C4 reached: a fifth call on a cell was refused
C4_Reached ==
    /\ out.op = "AddReference"
    /\ out.err = "cell references are filled"
    /\ \E c \in Cells(heap) : Len(CallsOn(c)) = 5 /\ RefsSize(heap[c]) = 4

\* the byte at pos of a stream takes part in locating the fields behind it:
\* the magic prefix, the flags byte, offsetBytes, cellsNum, rootsNum and
\* totCellsSize (the absent count, the root indices, the index, the cell
\* data and the trailer do not)
Locating(original, pos) ==
    LET sizeBytes == original[5] % 8
        offsetBytes == original[6]
    IN  \/ pos <= 6 + 2 * sizeBytes
        \/ pos > 6 + 3 * sizeBytes /\ pos <= 6 + 3 * sizeBytes + offsetBytes

\* the stream starts with a known prefix that carries the checksum flag
CarriesChecksumFlag(boc) ==
    ~MagicMissing(boc) /\ HeaderFlags(Take(boc, 4), boc[5]).hashCrc32

\* C5, as amended: with one byte of a checksummed stream changed,
\* parseBocHeader returns no header that still carries the checksum flag;
\* when the byte changed is none of those that locate the fields, the error
\* is 'crc32c hashsum mismatch'; and on a stream that does not carry the
\* checksum flag no checksum is compared.
C5_ChecksumEnforced ==
    /\ out.op = "parseBocHeader" /\ out.input.op = "Corrupt" /\ out.input.hasCrc32
         => /\ out.status = "ok" => ~out.header.hashCrc32
            /\ ~Locating(out.input.original, out.input.pos)
                 => /\ out.status = "error"
                    /\ out.err = "crc32c hashsum mismatch"
                    /\ out.crcCompared
    /\ out.op = "parseBocHeader" /\ ~CarriesChecksumFlag(stream) => ~out.crcCompared

\* C5 reached: a byte of the cell data of a checksummed stream was changed
\* and the comparison failed
C5_Reached ==
    /\ out.op = "parseBocHeader"
    /\ out.input.op = "Corrupt"
    /\ out.input.hasCrc32
    /\ ~Locating(out.input.original, out.input.pos)
    /\ out.input.pos <= Len(stream) - 4
    /\ out.err = "crc32c hashsum mismatch"

\* C5 as stated: changing any byte of a checksummed stream makes the parse
\* fail with 'crc32c hashsum mismatch'.
C5_EveryByteMismatch ==
    out.op = "parseBocHeader" /\ out.input.op = "Corrupt" /\ out.input.hasCrc32
        => out.status = "error" /\ out.err = "crc32c hashsum mismatch"

\* C6: no cell reaches itself by following one or more references.
C6_Acyclic == \A c \in Cells(heap) : c \notin ReachPlus(heap, c)

\* C7: a successful topologicalSort returns the depth-first preorder from
\* the root, the root first; the index map sends the hash of every listed
\* cell to its position; every reference has a greater index than the cell
\* that holds it.
C7_PreorderAndIndexes ==
    out.op = "topologicalSort" /\ out.status = "ok"
        => LET res == out.res
               index(c) == out.indexesMap[hashCell(heap, c)]
           IN  /\ res = Preorder(heap, out.cell)
               /\ res[1] = out.cell
               /\ index(out.cell) = 0
               /\ \A i \in 1..Len(res) : index(res[i]) = i - 1
               /\ \A i \in 1..Len(res) : \A k \in 1..RefsSize(heap[res[i]]) :
                      index(Refs(heap[res[i]])[k]) > index(res[i])

\* C7 reached: a root with two different children was linearized
C7_Reached ==
    /\ out.op = "topologicalSort"
    /\ out.status = "ok"
    /\ Len(out.res) = 3
    /\ RefsSize(heap[out.cell]) = 2

\* C8: topologicalSort and SerializeBoc fail with 'circular references are
\* not allowed' exactly when the traversal from the root meets a content
\* hash a second time, and then return no list, no index map and no bytes.
C8_CircularIffRepeatedHash ==
    /\ out.op \in {"topologicalSort", "SerializeBoc"}
         => (out.err = "circular references are not allowed"
               <=> RepeatedHash(heap, out.cell))
    /\ out.op = "topologicalSort" /\ out.err = "circular references are not allowed"
         => out.status = "error" /\ out.res = <<>> /\ out.indexesMap = <<>>
    /\ out.op = "SerializeBoc" /\ out.err = "circular references are not allowed"
         => out.status = "error" /\ stream = <<>>

\* C8 reached: a root with two empty leaves, distinct objects of identical
\* content, was refused
C8_Reached ==
    /\ out.op = "SerializeBoc"
    /\ out.err = "circular references are not allowed"
    /\ IsTree(heap, out.cell)
    /\ Len(Preorder(heap, out.cell)) = 3

\* the least b >= 1 with n < 256^b
MinimalWidth(n) ==
    CHOOSE b \in 1..3 : n < Pow2(8 * b) /\ (b = 1 \/ n >= Pow2(8 * (b - 1)))

\* C9: sizeBytes is the minimal number of bytes that holds the cell count,
\* offsetBytes the minimal number of bytes that holds fullSize.
C9_MinimalWidths ==
    /\ out.op = "sizeBytes" => out.sBytes = MinimalWidth(out.cellsNum)
    /\ out.op = "offsetBytes" => out.offsetBytes = MinimalWidth(out.fullSize)

\* C10: for a payload of b bits, d2 = ceil(b/8) + floor(b/8) fits in a byte,
\* and deserializeCellData derives from it the data length ceil(b/8) and a
\* fullfilled flag that is true exactly when d2 is even, that is when b is a
\* multiple of 8; this in both copies of deserializeCellData.
C10_DescriptorRoundTrip ==
    out.op = "descriptor"
        => LET b == out.bitSize
           IN  /\ CeilDiv(b, 8) + (b \div 8) < 256
               /\ out.d2 = CeilDiv(b, 8) + (b \div 8)
               /\ out.dataBytesSize = CeilDiv(b, 8)
               /\ out.fullfilledBytes = (out.d2 % 2 = 0)
               /\ out.fullfilledBytes = (b % 8 = 0)
               /\ out.fullfilledBytesCopy = (out.d2 % 2 = 0)

=============================================================================
